---- MODULE Spec2Model ----
(***************************************************************************)
(* Model of GREParser (src/Zeus.py): the anchor-line parser, the block     *)
(* scanner, the root-derivation parser, the group assembler with its two   *)
(* indices, and the two queries.                                           *)
(*                                                                         *)
(* A Python str is a sequence of one-character strings.  None is the       *)
(* one-element sequence <<"None">>, which no str of the model equals.      *)
(***************************************************************************)
EXTENDS Integers, Sequences, FiniteSets, TLC

VARIABLES
    pc,             \* position of the program
    line,           \* argument of parse_anchor_line
    ret,            \* value returned by parse_anchor_line
    lines,          \* argument of parse_blocks_and_contexts
    i,              \* its line index
    block_lines,    \* lines collected for the {...} block in progress
    context_lines,  \* lines collected for the [...] block in progress
    derived_blocks, \* blocks found so far
    contexts,       \* context lines found so far
    text,           \* self.text, as its sequence of lines
    group_texts,    \* the group texts parse() splits the text into
    gi,             \* number of group texts the loop of parse() has taken
    groups,         \* self.groups
    anchor_dict,    \* self.anchor_dict
    root_dict,      \* self.root_dict
    out             \* what the last query reported

vars == <<pc, line, ret, lines, i, block_lines, context_lines,
          derived_blocks, contexts, text, group_texts, gi, groups,
          anchor_dict, root_dict, out>>

----------------------------------------------------------------------------
(* Bounds *)

MaxLineLen == 5

----------------------------------------------------------------------------
(* Strings *)

None == <<"None">>

SP == " "

IsSpace(c) == c = SP

\* characters of the modelled anchor lines
AnchorChars == {"a", "<", ">", "!", ";", SP}

RECURSIVE SeqsOfLen(_, _)
SeqsOfLen(S, k) ==
    IF k = 0 THEN {<<>>}
    ELSE {Append(s, c) : s \in SeqsOfLen(S, k - 1), c \in S}

SeqsUpTo(S, k) == UNION {SeqsOfLen(S, j) : j \in 0..k}

\* s[a..b], empty when a > b
Slice(s, a, b) == IF a > b THEN <<>> ELSE SubSeq(s, a, b)

StartsWith(s, c) == Len(s) >= 1 /\ s[1] = c

EndsWith(s, c) == Len(s) >= 1 /\ s[Len(s)] = c

\* str.strip(chars): drop leading and trailing characters that are in cs
RECURSIVE LStripSet(_, _)
LStripSet(s, cs) ==
    IF Len(s) >= 1 /\ s[1] \in cs THEN LStripSet(Tail(s), cs) ELSE s

RECURSIVE RStripSet(_, _)
RStripSet(s, cs) ==
    IF Len(s) >= 1 /\ s[Len(s)] \in cs
    THEN RStripSet(SubSeq(s, 1, Len(s) - 1), cs) ELSE s

StripSet(s, cs) == RStripSet(LStripSet(s, cs), cs)

\* str.strip()
Strip(s) == StripSet(s, {SP})

\* ' '.join(ws)
RECURSIVE Join(_)
Join(ws) ==
    IF Len(ws) = 0 THEN <<>>
    ELSE IF Len(ws) = 1 THEN ws[1]
    ELSE ws[1] \o <<SP>> \o Join(Tail(ws))

Indices(n) == [k \in 1..n |-> k]

InSeq(x, s) == \E k \in 1..Len(s) : s[k] = x

\* the concatenation of the sequences of ss
RECURSIVE Flatten(_)
Flatten(ss) == IF ss = <<>> THEN <<>> ELSE ss[1] \o Flatten(Tail(ss))

----------------------------------------------------------------------------
(* re.findall(r'(<[^>]+>|![^\s;]+|[^\s;]+|;)', line) *)

\* index of the first '>' at or after p, Len(s)+1 when there is none
RECURSIVE FirstGt(_, _)
FirstGt(s, p) ==
    IF p > Len(s) THEN Len(s) + 1
    ELSE IF s[p] = ">" THEN p ELSE FirstGt(s, p + 1)

\* end of the longest run of [^\s;] starting at p (p - 1 when it is empty)
RECURSIVE RunEnd(_, _)
RunEnd(s, p) ==
    IF p > Len(s) \/ IsSpace(s[p]) \/ s[p] = ";" THEN p - 1
    ELSE RunEnd(s, p + 1)

\* last index of the match of the pattern at p, 0 when nothing matches at p;
\* the alternatives are tried in the order the pattern lists them
MatchEnd(s, p) ==
    IF s[p] = "<" /\ FirstGt(s, p + 1) <= Len(s) /\ FirstGt(s, p + 1) >= p + 2
        THEN FirstGt(s, p + 1)                      \* <[^>]+>
    ELSE IF s[p] = "!" /\ RunEnd(s, p + 1) >= p + 1
        THEN RunEnd(s, p + 1)                       \* ![^\s;]+
    ELSE IF RunEnd(s, p) >= p
        THEN RunEnd(s, p)                           \* [^\s;]+
    ELSE IF s[p] = ";"
        THEN p                                      \* ;
    ELSE 0

\* F applied to the value of x: an argument is evaluated once, before the
\* call it is passed to
Eager(F(_), x) == CHOOSE r \in {F(v) : v \in {x}} : TRUE

RECURSIVE FindAllFrom(_, _)
FindAllFrom(s, p) ==
    IF p > Len(s) THEN <<>>
    ELSE IF MatchEnd(s, p) = 0 THEN FindAllFrom(s, p + 1)
    ELSE <<SubSeq(s, p, MatchEnd(s, p))>>
         \o Eager(LAMBDA q : FindAllFrom(s, q), MatchEnd(s, p) + 1)

Tokenize(s) == FindAllFrom(s, 1)

----------------------------------------------------------------------------
(* parse_anchor_line *)

\* the locals of parse_anchor_line before its loop
AnchorLocals0 ==
    [anchor |-> None, synonyms |-> <<>>, antonyms |-> <<>>,
     meanings |-> <<>>, cur_meaning |-> <<>>]

\* a parser that lets an antonym into the meaning group in progress
AntonymBranchLeaks(st, t) ==
    [st EXCEPT !.antonyms = Append(@, Tail(t)),
               !.cur_meaning = Append(@, Tail(t))]

\* the antonym branch: the token is recorded in antonyms only
AntonymBranch(st, t) ==
    [st EXCEPT !.antonyms = Append(@, Tail(t))]

\* a parser that records a <...> token as a synonym but not in the meaning
SynonymBranchNoMeaning(st, t) ==
    [st EXCEPT !.synonyms = Append(@, Slice(t, 2, Len(t) - 1))]

\* the <...> branch
SynonymBranch(st, t) ==
    [st EXCEPT !.synonyms = Append(@, Slice(t, 2, Len(t) - 1)),
               !.cur_meaning = Append(@, Slice(t, 2, Len(t) - 1))]

\* a parser that closes a meaning group at every ';', empty or not
SemicolonBranchAlways(st) ==
    [st EXCEPT !.meanings = Append(@, Strip(Join(st.cur_meaning))),
               !.cur_meaning = <<>>]

\* what a ';' token does
SemicolonBranch(st) ==
    IF st.cur_meaning # <<>>
    THEN [st EXCEPT !.meanings = Append(@, Strip(Join(st.cur_meaning))),
                    !.cur_meaning = <<>>]
    ELSE st

\* one iteration of the loop over the tokens
TokenStep(st, t) ==
    IF t = <<";">> THEN SemicolonBranch(st)
    ELSE IF st.anchor = None
        THEN [st EXCEPT !.anchor = StripSet(t, {"<", ">", "!"}),
                        !.cur_meaning = Append(@, StripSet(t, {"<", ">", "!"}))]
    ELSE IF StartsWith(t, "!") THEN AntonymBranch(st, t)
    ELSE IF StartsWith(t, "<") /\ EndsWith(t, ">") THEN SynonymBranch(st, t)
    ELSE [st EXCEPT !.synonyms = Append(@, t),
                    !.cur_meaning = Append(@, t)]

RECURSIVE TokenLoop(_, _)
TokenLoop(st, ts) ==
    IF ts = <<>> THEN st
    ELSE Eager(LAMBDA nxt : TokenLoop(nxt, Tail(ts)), TokenStep(st, ts[1]))

\* a parser that injects the anchor into the final meaning group as well
AnchorReturnReinjects(st) ==
    [anchor |-> st.anchor, synonyms |-> st.synonyms, antonyms |-> st.antonyms,
     meanings |-> IF st.cur_meaning # <<>>
                  THEN Append(st.meanings,
                              Strip(Join(IF st.meanings = <<>> THEN st.cur_meaning
                                         ELSE <<st.anchor>> \o st.cur_meaning)))
                  ELSE st.meanings]

\* the code after the loop and the returned tuple
AnchorReturn(st) ==
    [anchor |-> st.anchor, synonyms |-> st.synonyms, antonyms |-> st.antonyms,
     meanings |-> IF st.cur_meaning # <<>>
                  THEN Append(st.meanings, Strip(Join(st.cur_meaning)))
                  ELSE st.meanings]

parse_anchor_line(l) ==
    Eager(LAMBDA tokens :
              Eager(LAMBDA st : AnchorReturn(st), TokenLoop(AnchorLocals0, tokens)),
          Tokenize(l))

NoReturn == [anchor |-> None, synonyms |-> <<>>, antonyms |-> <<>>,
             meanings |-> <<>>]

----------------------------------------------------------------------------
(* parse_derived_block *)

\* index of the first ')' at or after p, Len(s)+1 when there is none
RECURSIVE FirstParen(_, _)
FirstParen(s, p) ==
    IF p > Len(s) THEN Len(s) + 1
    ELSE IF s[p] = ")" THEN p ELSE FirstParen(s, p + 1)

\* re.match(r'\(([^)]+)\):\s*(.*)', s): the index of the ')' that closes
\* group 1, 0 when the pattern does not match
RootMatch(s) ==
    IF /\ StartsWith(s, "(")
       /\ FirstParen(s, 2) >= 3
       /\ FirstParen(s, 2) + 1 <= Len(s)
       /\ s[FirstParen(s, 2) + 1] = ":"
    THEN FirstParen(s, 2)
    ELSE 0

\* the derived words of a block: its non-empty lines after the first
RECURSIVE DerivedWords(_, _)
DerivedWords(ws, root) ==
    IF ws = <<>> THEN <<>>
    ELSE IF ws[1] # <<>>
        THEN <<[word |-> ws[1], root |-> root]>> \o DerivedWords(Tail(ws), root)
    ELSE DerivedWords(Tail(ws), root)

\* a root-derivation parser that gives up on a first line without (ROOT):
parse_derived_block_strict(bl) ==
    IF bl = <<>> \/ RootMatch(bl[1]) = 0
    THEN [root |-> None, meaning |-> None, derived_words |-> <<>>]
    ELSE [root |-> Slice(bl[1], 2, RootMatch(bl[1]) - 1),
          meaning |-> LStripSet(Slice(bl[1], RootMatch(bl[1]) + 2, Len(bl[1])),
                                {SP}),
          derived_words |->
              DerivedWords(Tail(bl), Slice(bl[1], 2, RootMatch(bl[1]) - 1))]

parse_derived_block(bl) ==
    IF bl = <<>>
    THEN [root |-> None, meaning |-> None, derived_words |-> <<>>]
    ELSE IF RootMatch(bl[1]) # 0
    THEN [root |-> Slice(bl[1], 2, RootMatch(bl[1]) - 1),
          meaning |-> LStripSet(Slice(bl[1], RootMatch(bl[1]) + 2, Len(bl[1])),
                                {SP}),
          derived_words |->
              DerivedWords(Tail(bl), Slice(bl[1], 2, RootMatch(bl[1]) - 1))]
    ELSE [root |-> bl[1],
          meaning |-> <<>>,
          derived_words |-> DerivedWords(Tail(bl), bl[1])]

----------------------------------------------------------------------------
(* parse_blocks_and_contexts, one step of its loops at a time *)

\* what lines[k] gives (k counts from 0, as in the code)
IndexError == <<"IndexError">>

LineAt(ls, k) == IF k >= 0 /\ k < Len(ls) THEN ls[k + 1] ELSE IndexError

\* the test of the outer loop: "body" to run its body, "exit" to leave it
OuterCond(ls, k) == IF k < Len(ls) THEN "body" ELSE "exit"

\* the test of an inner loop, i < n and not lines[i].strip().startswith(closer):
\* "body", "exit", or "raise" when evaluating it raises
InnerCond(ls, k, closer) ==
    IF ~(k < Len(ls)) THEN "exit"
    ELSE IF LineAt(ls, k) = IndexError THEN "raise"
    ELSE IF StartsWith(Strip(LineAt(ls, k)), closer) THEN "exit"
    ELSE "body"

\* a scanner whose else branch forgets to move on
SkipLineStuck(k) == k

\* the else branch of the outer loop
SkipLine(k) == k + 1

\* derived_blocks after a {...} block with the lines bl
BlockResult(dbs, bl) ==
    IF bl # <<>> THEN Append(dbs, parse_derived_block(bl)) ELSE dbs

\* a scanner that keeps the quotes of a context line
ContextLineRaw(l) == Strip(l)

\* what a line of a [...] block adds to context_lines
ContextLine(l) == StripSet(Strip(l), {"\""})

----------------------------------------------------------------------------
(* The body of the loop of parse(): building the group and the indices *)

\* d[k].append(v) on a defaultdict(list)
DictAppend(d, k, v) ==
    IF k \in DOMAIN d THEN [d EXCEPT ![k] = Append(@, v)]
    ELSE [x \in DOMAIN d \cup {k} |-> IF x = k THEN <<v>> ELSE d[x]]

\* d[k] = v on a dict
DictSet(d, k, v) == [x \in DOMAIN d \cup {k} |-> IF x = k THEN v ELSE d[x]]

RECURSIVE AppendDerived(_, _)
AppendDerived(rd, dws) ==
    IF dws = <<>> THEN rd
    ELSE AppendDerived(DictAppend(rd, dws[1].root, dws[1].word), Tail(dws))

\* an assembler that indexes the derived words but not the anchor
IndexBlockNoAnchor(rd, a, block) == AppendDerived(rd, block.derived_words)

\* root_dict after one block of the group with anchor a
IndexBlock(rd, a, block) ==
    AppendDerived(DictAppend(rd, block.root, a), block.derived_words)

RECURSIVE IndexBlocks(_, _, _)
IndexBlocks(rd, a, dbs) ==
    IF dbs = <<>> THEN rd
    ELSE IndexBlocks(IndexBlock(rd, a, dbs[1]), a, Tail(dbs))

group_data(r, dbs, cs) ==
    [anchor |-> r.anchor, synonyms |-> r.synonyms, antonyms |-> r.antonyms,
     meanings |-> r.meanings,
     roots |-> [k \in 1..Len(dbs) |->
                   [root |-> dbs[k].root, meaning |-> dbs[k].meaning]],
     derived |-> Flatten([k \in 1..Len(dbs) |-> dbs[k].derived_words]),
     contexts |-> cs]

\* an index that keeps the first group published under an anchor
PublishFirstWins(ad, a, g) == IF a \in DOMAIN ad THEN ad ELSE DictSet(ad, a, g)

\* self.anchor_dict[anchor] = group_data
Publish(ad, a, g) == DictSet(ad, a, g)

----------------------------------------------------------------------------
(* The text and its groups *)

IsBlank(l) == Strip(l) = <<>>

\* the text cut at every run of blank lines: re.split(r'\n\s*\n', text.strip())
RECURSIVE SplitRuns(_, _)
SplitRuns(ls, cur) ==
    IF ls = <<>> THEN (IF cur = <<>> THEN <<>> ELSE <<cur>>)
    ELSE IF IsBlank(ls[1])
        THEN (IF cur = <<>> THEN <<>> ELSE <<cur>>) \o SplitRuns(Tail(ls), <<>>)
    ELSE SplitRuns(Tail(ls), Append(cur, ls[1]))

SplitGroups(t) ==
    IF SplitRuns(t, <<>>) = <<>> THEN <<<<>>>> ELSE SplitRuns(t, <<>>)

\* [l for l in group.strip().split('\n') if l.strip()]
GroupLines(g) ==
    LET stripped ==
            [k \in 1..Len(g) |->
                IF k = 1 /\ k = Len(g) THEN Strip(g[k])
                ELSE IF k = 1 THEN LStripSet(g[k], {SP})
                ELSE IF k = Len(g) THEN RStripSet(g[k], {SP})
                ELSE g[k]]
    IN  SelectSeq(stripped, LAMBDA l : ~IsBlank(l))

----------------------------------------------------------------------------
(* The queries *)

NoOutput == [op |-> "none", arg |-> <<>>, found |-> FALSE, data |-> <<>>]

Range(s) == {s[k] : k \in 1..Len(s)}

\* a lookup that indexes the defaultdict, which inserts a missing key
AfterGetitem(d, k) ==
    IF k \in DOMAIN d THEN d
    ELSE [x \in DOMAIN d \cup {k} |-> IF x = k THEN <<>> ELSE d[x]]

\* the dict after d.get(k): get never inserts
AfterGet(d, k) == d

\* what query_anchor reports
query_anchor(ad, a) ==
    IF a \in DOMAIN ad
    THEN [op |-> "anchor", arg |-> a, found |-> TRUE, data |-> ad[a]]
    ELSE [op |-> "anchor", arg |-> a, found |-> FALSE, data |-> <<>>]

\* what query_root reports: the set of the words, or not found when it is
\* empty
query_root(rd, r) ==
    LET words == IF r \in DOMAIN rd THEN Range(rd[r]) ELSE {}
    IN  [op |-> "root", arg |-> r, found |-> words # {}, data |-> words]

----------------------------------------------------------------------------
(* Inputs and idle parts of the state *)

\* lines[0] of a group: not blank, and group.strip() left it no leading space
AnchorLines ==
    {l \in SeqsUpTo(AnchorChars, MaxLineLen) : l # <<>> /\ ~IsSpace(l[1])}

IdleScanner ==
    /\ lines = <<>>
    /\ i = 0
    /\ block_lines = <<>>
    /\ context_lines = <<>>
    /\ derived_blocks = <<>>
    /\ contexts = <<>>

IdleLoader ==
    /\ text = <<>>
    /\ group_texts = <<>>
    /\ gi = 0
    /\ groups = <<>>
    /\ anchor_dict = <<>>
    /\ root_dict = <<>>
    /\ out = NoOutput

----------------------------------------------------------------------------
(* The load pass and the queries *)

\* the lines of the group text the for loop of parse() takes next
NextGroupLines == GroupLines(group_texts[gi + 1])

\* the for loop of parse() takes the next group text: a group with no line
\* is skipped; otherwise its first line is the anchor line
BeginGroup ==
    /\ pc = "parse"
    /\ gi < Len(group_texts)
    /\ gi' = gi + 1
    /\ IF NextGroupLines = <<>>
       THEN UNCHANGED <<pc, line, lines>>
       ELSE /\ line' = NextGroupLines[1]
            /\ lines' = Tail(NextGroupLines)
            /\ pc' = "anchor_line"
    /\ UNCHANGED <<ret, i, block_lines, context_lines, derived_blocks,
                   contexts, text, group_texts, groups, anchor_dict,
                   root_dict, out>>

\* anchor_line goes through parse_anchor_line; parse_blocks_and_contexts
\* starts on the other lines
ParseAnchorLine ==
    /\ pc = "anchor_line"
    /\ ret' = parse_anchor_line(line)
    /\ i' = 0
    /\ block_lines' = <<>>
    /\ context_lines' = <<>>
    /\ derived_blocks' = <<>>
    /\ contexts' = <<>>
    /\ pc' = "scan"
    /\ UNCHANGED <<line, lines, text, group_texts, gi, groups, anchor_dict,
                   root_dict, out>>

\* outer loop, a line that opens nothing
ScanOther ==
    /\ pc = "scan"
    /\ OuterCond(lines, i) = "body"
    /\ ~StartsWith(Strip(LineAt(lines, i)), "{")
    /\ ~StartsWith(Strip(LineAt(lines, i)), "[")
    /\ i' = SkipLine(i)
    /\ UNCHANGED <<pc, line, ret, lines, block_lines, context_lines,
                   derived_blocks, contexts, text, group_texts, gi, groups, anchor_dict,
                   root_dict, out>>

\* outer loop, a line that starts with '{'
OpenBrace ==
    /\ pc = "scan"
    /\ OuterCond(lines, i) = "body"
    /\ StartsWith(Strip(LineAt(lines, i)), "{")
    /\ block_lines' = <<>>
    /\ i' = i + 1
    /\ pc' = "brace"
    /\ UNCHANGED <<line, ret, lines, context_lines, derived_blocks, contexts,
                   text, group_texts, gi, groups, anchor_dict, root_dict, out>>

\* inner loop of a {...} block, one line collected
CollectBrace ==
    /\ pc = "brace"
    /\ InnerCond(lines, i, "}") = "body"
    /\ block_lines' = Append(block_lines, Strip(LineAt(lines, i)))
    /\ i' = i + 1
    /\ UNCHANGED <<pc, line, ret, lines, context_lines, derived_blocks,
                   contexts, text, group_texts, gi, groups, anchor_dict, root_dict, out>>

\* the inner loop ends: the closing line is skipped and the block parsed
CloseBrace ==
    /\ pc = "brace"
    /\ InnerCond(lines, i, "}") # "body"
    /\ IF InnerCond(lines, i, "}") = "raise"
       THEN /\ pc' = "abort"
            /\ UNCHANGED <<i, derived_blocks>>
       ELSE /\ pc' = "scan"
            /\ i' = i + 1
            /\ derived_blocks' = BlockResult(derived_blocks, block_lines)
    /\ UNCHANGED <<line, ret, lines, block_lines, context_lines, contexts,
                   text, group_texts, gi, groups, anchor_dict, root_dict, out>>

\* outer loop, a line that starts with '['
OpenBracket ==
    /\ pc = "scan"
    /\ OuterCond(lines, i) = "body"
    /\ ~StartsWith(Strip(LineAt(lines, i)), "{")
    /\ StartsWith(Strip(LineAt(lines, i)), "[")
    /\ context_lines' = <<>>
    /\ i' = i + 1
    /\ pc' = "bracket"
    /\ UNCHANGED <<line, ret, lines, block_lines, derived_blocks, contexts,
                   text, group_texts, gi, groups, anchor_dict, root_dict, out>>

\* inner loop of a [...] block, one line collected
CollectBracket ==
    /\ pc = "bracket"
    /\ InnerCond(lines, i, "]") = "body"
    /\ context_lines' = Append(context_lines, ContextLine(LineAt(lines, i)))
    /\ i' = i + 1
    /\ UNCHANGED <<pc, line, ret, lines, block_lines, derived_blocks,
                   contexts, text, group_texts, gi, groups, anchor_dict, root_dict, out>>

\* the inner loop ends: the closing line is skipped, the lines are kept
CloseBracket ==
    /\ pc = "bracket"
    /\ InnerCond(lines, i, "]") # "body"
    /\ IF InnerCond(lines, i, "]") = "raise"
       THEN /\ pc' = "abort"
            /\ UNCHANGED <<i, contexts>>
       ELSE /\ pc' = "scan"
            /\ i' = i + 1
            /\ contexts' = contexts \o context_lines
    /\ UNCHANGED <<line, ret, lines, block_lines, context_lines,
                   derived_blocks, text, group_texts, gi, groups, anchor_dict, root_dict,
                   out>>

\* the scan returns; the group is built, indexed by its roots and published
Assemble ==
    /\ pc = "scan"
    /\ OuterCond(lines, i) = "exit"
    /\ root_dict' = IndexBlocks(root_dict, ret.anchor, derived_blocks)
    /\ groups' = Append(groups, group_data(ret, derived_blocks, contexts))
    /\ anchor_dict' = Publish(anchor_dict, ret.anchor,
                              group_data(ret, derived_blocks, contexts))
    /\ pc' = "parse"
    /\ UNCHANGED <<line, ret, lines, i, block_lines, context_lines,
                   derived_blocks, contexts, text, group_texts, gi, out>>

\* no group text is left: __init__ returns
FinishLoad ==
    /\ pc = "parse"
    /\ gi = Len(group_texts)
    /\ pc' = "loaded"
    /\ UNCHANGED <<line, ret, lines, i, block_lines, context_lines,
                   derived_blocks, contexts, text, group_texts, gi, groups, anchor_dict,
                   root_dict, out>>

\* the arguments the queries are tried with: present and absent ones
QueryArgs ==
    {<<"a">>, <<"b">>, <<"r">>, <<"z">>}

QueryAnchor ==
    /\ pc = "loaded"
    /\ \E a \in QueryArgs :
          /\ out' = query_anchor(anchor_dict, a)
          /\ anchor_dict' = AfterGet(anchor_dict, a)
    /\ UNCHANGED <<pc, line, ret, lines, i, block_lines, context_lines,
                   derived_blocks, contexts, text, group_texts, gi, groups, root_dict>>

QueryRoot ==
    /\ pc = "loaded"
    /\ \E r \in QueryArgs :
          /\ out' = query_root(root_dict, r)
          /\ root_dict' = AfterGet(root_dict, r)
    /\ UNCHANGED <<pc, line, ret, lines, i, block_lines, context_lines,
                   derived_blocks, contexts, text, group_texts, gi, groups, anchor_dict>>

\* a step of the load pass, parse() called from __init__
LoadStep ==
    \/ BeginGroup
    \/ ParseAnchorLine
    \/ ScanOther
    \/ OpenBrace
    \/ CollectBrace
    \/ CloseBrace
    \/ OpenBracket
    \/ CollectBracket
    \/ CloseBracket
    \/ Assemble
    \/ FinishLoad

Next ==
    \/ LoadStep
    \/ QueryAnchor
    \/ QueryRoot

\* the state after the three assignments of __init__ and the split of the
\* text at the head of parse()
InitLoader ==
    /\ pc = "parse"
    /\ line = <<>>
    /\ ret = NoReturn
    /\ IdleScanner
    /\ gi = 0
    /\ groups = <<>>
    /\ anchor_dict = <<>>
    /\ root_dict = <<>>
    /\ out = NoOutput

(* One anchor line *)

InitAnchor ==
    /\ pc = "anchor_line"
    /\ line \in AnchorLines
    /\ ret = NoReturn
    /\ IdleScanner
    /\ IdleLoader

NextAnchor == ParseAnchorLine

SpecAnchor == InitAnchor /\ [][NextAnchor]_vars

(* Texts of one group: an anchor line and any lines after it *)

LBrace == <<SP, "{", "x">>
RBrace == <<"}">>
LBracket == <<"[">>
RBracket == <<"]", SP>>
RootLine == <<"(", "r", ")", ":", SP, "m">>
Quoted == <<"\"", "w", "\"">>

BlockLineKinds == {LBrace, RBrace, LBracket, RBracket, RootLine, Quoted}

MaxLines == 4

InitBlocks ==
    /\ InitLoader
    /\ \E ls \in SeqsUpTo(BlockLineKinds, MaxLines) : text = <<<<"a">>>> \o ls
    /\ group_texts = SplitGroups(text)

SpecBlocks == InitBlocks /\ [][Next]_vars

(* Texts of several groups, with blank lines between them *)

GroupKinds ==
    { <<<<"a">>>>,
      <<<<"a", SP, "b">>, <<"{">>, RootLine, <<"b">>, <<"}">>>>,
      <<<<"b">>, <<"{">>, RootLine, <<"}">>, <<"[">>, Quoted, <<"]">>>>,
      <<<<";">>, <<"{">>, <<"r">>, <<"a">>, <<"}">>>>,
      <<<<"b">>, <<"z">>, <<"{">>, <<"}">>, <<"{">>, <<"z">>>> }

\* the blank lines between two groups
Separator == <<<<>>, <<SP>>>>

RECURSIVE JoinGroups(_)
JoinGroups(gs) ==
    IF gs = <<>> THEN <<>>
    ELSE IF Len(gs) = 1 THEN gs[1]
    ELSE gs[1] \o Separator \o JoinGroups(Tail(gs))

MaxGroups == 3

InitLoad ==
    /\ InitLoader
    /\ \E gs \in SeqsUpTo(GroupKinds, MaxGroups) : text = JoinGroups(gs)
    /\ group_texts = SplitGroups(text)

SpecLoad == InitLoad /\ [][Next]_vars

\* the load pass is sequential code with no suspension point: it keeps
\* running while it has a step to take (the queries wait for the user)
FairSpec == (InitBlocks \/ InitLoad) /\ [][Next]_vars /\ WF_vars(LoadStep)

----------------------------------------------------------------------------
(* Properties of the block scanner, stated on the lines of the group *)

\* line k of ls begins with c (surrounding whitespace aside)
Begins(ls, k, c) == StartsWith(Strip(ls[k]), c)

Min(S) == CHOOSE x \in S : \A y \in S : x <= y

\* the lines after k that begin with c
Closers(ls, k, c) == {h \in (k + 1)..Len(ls) : Begins(ls, h, c)}

\* where the block opened at line o ends: the next line that begins with the
\* closer c, or just past the last line when no such line follows
EndOf(ls, o, c) ==
    IF Closers(ls, o, c) = {} THEN Len(ls) + 1 ELSE Min(Closers(ls, o, c))

\* the lines at which the scanner is outside every block, from line p on
RECURSIVE TopFrom(_, _)
TopFrom(ls, p) ==
    IF p > Len(ls) THEN {}
    ELSE {p} \cup
         TopFrom(ls, IF Begins(ls, p, "{") THEN EndOf(ls, p, "}") + 1
                     ELSE IF Begins(ls, p, "[") THEN EndOf(ls, p, "]") + 1
                     ELSE p + 1)

\* the same, reading "a block ends on the next line beginning with the
\* matching closer" to the letter: an opener that no such line follows opens
\* no block
RECURSIVE TopFromClosed(_, _)
TopFromClosed(ls, p) ==
    IF p > Len(ls) THEN {}
    ELSE {p} \cup
         TopFromClosed(ls,
             IF Begins(ls, p, "{") /\ Closers(ls, p, "}") # {}
                 THEN EndOf(ls, p, "}") + 1
             ELSE IF Begins(ls, p, "[") /\ Closers(ls, p, "]") # {}
                 THEN EndOf(ls, p, "]") + 1
             ELSE p + 1)

\* the openers c of the blocks, in order, given the lines outside blocks
Openers(ls, tops, c) ==
    SelectSeq(Indices(Len(ls)), LAMBDA k : k \in tops /\ Begins(ls, k, c))

\* the lines strictly inside the block opened at o, whitespace trimmed
Inside(ls, o, c) ==
    [k \in 1..(EndOf(ls, o, c) - o - 1) |-> Strip(ls[o + k])]

\* a line without its enclosing double quotes
Unquoted(l) == StripSet(l, {"\""})

\* the root a block's first line l names: ROOT when l is (ROOT):MEANING,
\* else l itself
RootNamed(l) ==
    IF \E q \in 3..(Len(l) - 1) :
           /\ l[1] = "(" /\ l[q] = ")" /\ l[q + 1] = ":"
           /\ \A h \in 2..(q - 1) : l[h] # ")"
    THEN LET q == CHOOSE q \in 3..(Len(l) - 1) :
                      /\ l[1] = "(" /\ l[q] = ")" /\ l[q + 1] = ":"
                      /\ \A h \in 2..(q - 1) : l[h] # ")"
         IN  SubSeq(l, 2, q - 1)
    ELSE l

\* a group has just been built from lines
GroupBuilt == pc \in {"parse", "loaded"} /\ groups # <<>>

LastGroup == groups[Len(groups)]

\* C6 as stated: every line that opens a {...} block, an empty block
\* included, gives the group exactly one RootRef, and RootIndex holds the
\* anchor under that root.
C6_AsStated ==
    GroupBuilt =>
        LET os == Openers(lines, TopFrom(lines, 1), "{")
        IN  /\ Len(LastGroup.roots) = Len(os)
            /\ \A k \in 1..Len(LastGroup.roots) :
                  /\ LastGroup.roots[k].root \in DOMAIN root_dict
                  /\ InSeq(LastGroup.anchor, root_dict[LastGroup.roots[k].root])

\* C6, amended: every line that opens a {...} block with at least one line
\* inside it gives the group exactly one RootRef, whose root is ROOT when the
\* first line is (ROOT):MEANING and the first line verbatim otherwise (the
\* meaning is then empty), and RootIndex holds the group's anchor under that
\* root; a block with no line inside it gives nothing.
C6_BlockYieldsRoot ==
    GroupBuilt =>
        LET os == Openers(lines, TopFrom(lines, 1), "{")
            full == SelectSeq(os, LAMBDA o : Inside(lines, o, "}") # <<>>)
        IN  /\ Len(LastGroup.roots) = Len(full)
            /\ \A k \in 1..Len(full) :
                  LET l == Inside(lines, full[k], "}")[1]
                      ref == LastGroup.roots[k]
                  IN  /\ ref.root = RootNamed(l)
                      /\ (RootNamed(l) = l => ref.meaning = <<>>)
                      /\ ref.root \in DOMAIN root_dict
                      /\ InSeq(LastGroup.anchor, root_dict[ref.root])

\* a group with a block whose first line is not (ROOT):MEANING and with an
\* empty block has been built
C6_Witness ==
    /\ GroupBuilt
    /\ Len(LastGroup.roots) = 1
    /\ LastGroup.roots[1].root = Quoted
    /\ Len(Openers(lines, TopFrom(lines, 1), "{")) = 2

\* C9 as stated: the contexts are the lines strictly between each '[' opener
\* and the next line that begins with ']', quotes stripped.
C9_AsStated ==
    GroupBuilt =>
        LET os == Openers(lines, TopFromClosed(lines, 1), "[")
            closed == SelectSeq(os, LAMBDA o : Closers(lines, o, "]") # {})
        IN  LastGroup.contexts =
               Flatten([k \in 1..Len(closed) |->
                           LET ins == Inside(lines, closed[k], "]")
                           IN  [h \in 1..Len(ins) |-> Unquoted(ins[h])]])

\* C9, amended: the scanner does not nest; a block starts on a line
\* beginning with '{' or '[' and ends on the next line beginning with the
\* matching '}' or ']', or at the end of the group's lines when no such line
\* follows; the contexts are, in order, the lines inside the '[' blocks with
\* enclosing double quotes stripped; the roots and derived words come, in
\* order, from the lines inside the '{' blocks; lines outside any block add
\* nothing.
C9_ScannerBlocks ==
    GroupBuilt =>
        LET tops == TopFrom(lines, 1)
            cs == Openers(lines, tops, "[")
            bs == Openers(lines, tops, "{")
            full == SelectSeq(bs, LAMBDA o : Inside(lines, o, "}") # <<>>)
        IN  /\ LastGroup.contexts =
                  Flatten([k \in 1..Len(cs) |->
                              LET ins == Inside(lines, cs[k], "]")
                              IN  [h \in 1..Len(ins) |-> Unquoted(ins[h])]])
            /\ Len(LastGroup.roots) = Len(full)
            /\ [k \in 1..Len(LastGroup.derived) |-> LastGroup.derived[k].word]
                  = Flatten([k \in 1..Len(full) |->
                                Tail(Inside(lines, full[k], "}"))])

\* a group with a stray closing line and then an unterminated '[' block
\* holding a quoted line has been built
C9_Witness ==
    /\ GroupBuilt
    /\ Len(lines) = 3
    /\ Begins(lines, 1, "]")
    /\ Begins(lines, 2, "[")
    /\ lines[3] = Quoted
    /\ LastGroup.contexts = <<<<"w">>>>

\* the positions of parse_blocks_and_contexts
ScanPcs == {"scan", "brace", "bracket"}

\* a step inside parse_blocks_and_contexts moves i forward by one
ScanAdvances ==
    (pc \in ScanPcs /\ pc' \in ScanPcs) =>
        (i' = i + 1 /\ i' <= Len(lines) + 1)

\* C7: the load pass terminates and never aborts; every step of a scanning
\* loop moves the line index forward by one, never past the line after the
\* last, also for an unterminated block, a closing line with no opener and an
\* anchor line with no word token.
C7_LoadTerminates ==
    /\ <>(pc = "loaded")
    /\ [](pc # "abort")
    /\ [][ScanAdvances]_vars

\* a text whose last group ends in an unterminated block, and one of whose
\* groups has an anchor line with no word token, has been loaded
C7_Witness ==
    /\ pc = "loaded"
    /\ \E o \in TopFrom(lines, 1) :
          Begins(lines, o, "{") /\ Closers(lines, o, "}") = {}
    /\ i = Len(lines) + 1
    /\ \E k \in 1..Len(groups) : groups[k].anchor = None

----------------------------------------------------------------------------
(* Properties of the indices and of the queries *)

\* the groups loaded under anchor a, by their place in self.groups
GroupsOf(a) == {k \in 1..Len(groups) : groups[k].anchor = a}

Max(S) == CHOOSE x \in S : \A y \in S : x >= y

\* s is a prefix of t
IsPrefix(s, t) == Len(s) <= Len(t) /\ SubSeq(t, 1, Len(s)) = s

\* a step keeps every key of RootIndex and every word under it, in place
RootIndexGrows ==
    \A r \in DOMAIN root_dict :
        r \in DOMAIN root_dict' /\ IsPrefix(root_dict[r], root_dict'[r])

\* C4: an anchor leads to the group loaded last under it, and nothing is
\* ever removed from RootIndex: every list of it only grows at its end, and
\* it holds every word that any loaded group, overwritten or not, put in it.
C4_LastWriteWins ==
    /\ [](/\ DOMAIN anchor_dict = {groups[k].anchor : k \in 1..Len(groups)}
          /\ \A a \in DOMAIN anchor_dict :
                /\ anchor_dict[a] = groups[Max(GroupsOf(a))]
                /\ query_anchor(anchor_dict, a).found
                /\ query_anchor(anchor_dict, a).data = groups[Max(GroupsOf(a))]
          /\ (out.op = "anchor" /\ out.found =>
                out.data = groups[Max(GroupsOf(out.arg))])
          /\ \A k \in 1..Len(groups) :
                /\ \A h \in 1..Len(groups[k].roots) :
                      /\ groups[k].roots[h].root \in DOMAIN root_dict
                      /\ InSeq(groups[k].anchor,
                               root_dict[groups[k].roots[h].root])
                /\ \A h \in 1..Len(groups[k].derived) :
                      /\ groups[k].derived[h].root \in DOMAIN root_dict
                      /\ InSeq(groups[k].derived[h].word,
                               root_dict[groups[k].derived[h].root]))
    /\ [][RootIndexGrows]_vars

\* two groups with one anchor have been loaded, the earlier one with a root
\* and a derived word, and the anchor has been looked up
C4_Witness ==
    /\ pc = "loaded"
    /\ out.op = "anchor"
    /\ out.found
    /\ \E j \in GroupsOf(out.arg) :
          /\ j < Max(GroupsOf(out.arg))
          /\ groups[j] # groups[Max(GroupsOf(out.arg))]
          /\ groups[j].roots # <<>>
          /\ groups[j].derived # <<>>

\* the words the loaded groups give root r: the anchor of every group with a
\* block of root r, and the derived words of root r
WordsOfRoot(r) ==
    {groups[k].anchor : k \in {h \in 1..Len(groups) :
                                  \E x \in Range(groups[h].roots) : x.root = r}}
    \cup UNION {{d.word : d \in {x \in Range(groups[k].derived) : x.root = r}} :
                k \in 1..Len(groups)}

\* the strings a root lookup is checked for
RootArgs ==
    QueryArgs \cup DOMAIN root_dict
    \cup UNION {{x.root : x \in Range(groups[k].roots)} : k \in 1..Len(groups)}

\* C5: after load, a lookup by root r reports not found exactly when no
\* block of a loaded group has root r, and otherwise exactly the set of the
\* anchors of the groups with such a block and of the derived words of root r.
C5_RootLookup ==
    pc = "loaded" =>
        /\ \A r \in RootArgs :
              /\ query_root(root_dict, r).found <=>
                    \E k \in 1..Len(groups) :
                        \E x \in Range(groups[k].roots) : x.root = r
              /\ query_root(root_dict, r).data = WordsOfRoot(r)
        /\ (out.op = "root" =>
              /\ out.found <=> WordsOfRoot(out.arg) # {}
              /\ out.data = WordsOfRoot(out.arg))

\* a root has been looked up that several groups name, with a word more than
\* once in its list
C5_Witness ==
    /\ pc = "loaded"
    /\ out.op = "root"
    /\ out.found
    /\ Cardinality(out.data) >= 3
    /\ Cardinality(out.data) < Len(root_dict[out.arg])
    /\ Cardinality(GroupsOf(<<"a">>)) >= 1

\* a step after load leaves the indices and the groups as they are
IndicesKept ==
    pc = "loaded" =>
        /\ anchor_dict' = anchor_dict
        /\ root_dict' = root_dict
        /\ DOMAIN root_dict' = DOMAIN root_dict
        /\ DOMAIN anchor_dict' = DOMAIN anchor_dict
        /\ groups' = groups

\* C8: after load, no step changes AnchorIndex, RootIndex, its set of keys, or
\* the list of groups: the queries only read.
C8_QueriesReadOnly == [][IndicesKept]_vars

\* a root absent from a non-empty RootIndex has been looked up
C8_Witness ==
    /\ pc = "loaded"
    /\ out.op = "root"
    /\ ~out.found
    /\ out.arg \notin DOMAIN root_dict
    /\ DOMAIN root_dict # {}
    /\ DOMAIN anchor_dict # {}

----------------------------------------------------------------------------
(* Properties of parse_anchor_line, stated on the tokens of the line *)

IsSemi(t) == t = <<";">>

\* a token of the form !X, a token of the form <X>
IsBang(t) == StartsWith(t, "!")

IsWrapped(t) == StartsWith(t, "<") /\ EndsWith(t, ">")

\* the X of !X and of <X>
BangText(t) == Tail(t)

WrappedText(t) == Slice(t, 2, Len(t) - 1)

Substring(x, s) ==
    \E a \in 1..(Len(s) + 1) :
        a + Len(x) - 1 <= Len(s) /\ Slice(s, a, a + Len(x) - 1) = x

\* What each token of the sequence ts is, by its place and its marker:
\*   aidx     index of the first token that is not ';' (it becomes the
\*            anchor), 0 when there is none
\*   nsemi    number of ';' tokens
\*   grp[j]   number of the meaning group of token j: the ';' tokens before it
\*   syn[j]   token j comes after the anchor and is neither ';' nor !X
\*   word[j]  the text token j adds to its meaning group
Roles(ts) ==
    LET n == Len(ts)
        aidx ==
            IF \A j \in 1..n : IsSemi(ts[j]) THEN 0
            ELSE CHOOSE j \in 1..n :
                    ~IsSemi(ts[j]) /\ \A h \in 1..(j - 1) : IsSemi(ts[h])
    IN  [toks  |-> ts,
         aidx  |-> aidx,
         nsemi |-> Cardinality({j \in 1..n : IsSemi(ts[j])}),
         grp   |-> [j \in 1..n |->
                       Cardinality({h \in 1..(j - 1) : IsSemi(ts[h])})],
         syn   |-> [j \in 1..n |->
                       j > aidx /\ ~IsSemi(ts[j]) /\ ~IsBang(ts[j])],
         ant   |-> [j \in 1..n |-> j > aidx /\ IsBang(ts[j])],
         word  |-> [j \in 1..n |->
                       IF j = aidx THEN StripSet(ts[j], {"<", ">", "!"})
                       ELSE IF IsWrapped(ts[j]) THEN WrappedText(ts[j])
                       ELSE ts[j]]]

NumToks(R) == Len(R.toks)

\* the groups that hold the anchor or a synonym
NonEmptyGroups(R) ==
    {R.grp[j] : j \in {h \in 1..NumToks(R) : h = R.aidx \/ R.syn[h]}}

\* the non-empty groups in order
GroupSeq(R) ==
    LET ne == NonEmptyGroups(R)
    IN  SelectSeq([k \in 1..(R.nsemi + 1) |-> k - 1], LAMBDA g : g \in ne)

\* the synonyms of group g, in order
SynsOfGroup(R, g) ==
    LET js == SelectSeq(Indices(NumToks(R)),
                        LAMBDA j : R.syn[j] /\ R.grp[j] = g)
    IN  [k \in 1..Len(js) |-> R.word[js[k]]]

\* the words of group g: the anchor first, in the group of the anchor token
WordsOfGroup(R, g) ==
    IF R.aidx # 0 /\ R.grp[R.aidx] = g
    THEN <<R.word[R.aidx]>> \o SynsOfGroup(R, g)
    ELSE SynsOfGroup(R, g)

\* position in meanings of the string of the group token j belongs to
MeaningIdx(R, j) ==
    Cardinality({g \in NonEmptyGroups(R) : g <= R.grp[j]})

\* the tokens without the antonym tokens (the tokens !X after the anchor)
WithoutAntonyms(R) ==
    LET js == SelectSeq(Indices(NumToks(R)), LAMBDA j : ~R.ant[j])
    IN  [k \in 1..Len(js) |-> R.toks[js[k]]]

\* parse_anchor_line has just returned
AnchorDone == pc = "scan" /\ i = 0

\* C1 as stated: a line with k semicolon tokens yields exactly k+1 meaning
\* strings, wherever the semicolons are.
C1_AsStated ==
    AnchorDone =>
        LET R == Roles(Tokenize(line))
        IN  Len(ret.meanings) = R.nsemi + 1

\* C1, amended: parse_anchor_line yields one meaning string per
\* semicolon-delimited group that holds the anchor or at least one synonym,
\* hence at most k+1 for k semicolon tokens, and exactly k+1 when no group is
\* empty.
C1_MeaningCount ==
    AnchorDone =>
        LET R == Roles(Tokenize(line))
            ne == NonEmptyGroups(R)
        IN  /\ Len(ret.meanings) = Cardinality(ne)
            /\ Len(ret.meanings) <= R.nsemi + 1
            /\ (ne = 0..R.nsemi => Len(ret.meanings) = R.nsemi + 1)

\* a line with two adjacent semicolons between two words has been parsed
C1_Witness ==
    /\ AnchorDone
    /\ Len(ret.meanings) = 2
    /\ LET ts == Tokenize(line)
       IN  /\ Len(ts) = 4
           /\ ~IsSemi(ts[1]) /\ IsSemi(ts[2]) /\ IsSemi(ts[3]) /\ ~IsSemi(ts[4])

\* C2 as stated: for every token !X, the first one included, X is in antonyms
\* and in no meaning string.
C2_AsStated ==
    AnchorDone =>
        LET ts == Tokenize(line)
        IN  \A j \in 1..Len(ts) :
                IsBang(ts[j]) /\ Len(ts[j]) >= 2 =>
                    /\ InSeq(BangText(ts[j]), ret.antonyms)
                    /\ \A k \in 1..Len(ret.meanings) :
                           ~Substring(BangText(ts[j]), ret.meanings[k])

\* C2, amended: for every token !X after the first word token (which is the
\* anchor, whatever its marker), X is appended to antonyms, in order, and the
\* token adds nothing to any meaning string: the meanings are those of the
\* line without the token.
C2_AntonymOnly ==
    AnchorDone =>
        LET R == Roles(Tokenize(line))
            js == SelectSeq(Indices(NumToks(R)), LAMBDA j : R.ant[j])
        IN  /\ ret.antonyms = [k \in 1..Len(js) |-> BangText(R.toks[js[k]])]
            /\ ret.meanings =
                  AnchorReturn(TokenLoop(AnchorLocals0,
                                         WithoutAntonyms(R))).meanings

\* a line with an antonym token !X after the anchor has been parsed
C2_Witness ==
    /\ AnchorDone
    /\ LET R == Roles(Tokenize(line))
       IN  \E j \in 1..NumToks(R) : R.ant[j] /\ Len(R.toks[j]) >= 2
    /\ ret.antonyms # <<>>
    /\ Len(ret.meanings) >= 1

\* C3 as stated: for every token <X>, the first one included, X is in
\* synonyms and in a meaning string.
C3_AsStated ==
    AnchorDone =>
        LET ts == Tokenize(line)
        IN  \A j \in 1..Len(ts) :
                IsWrapped(ts[j]) /\ Len(ts[j]) >= 3 =>
                    /\ InSeq(WrappedText(ts[j]), ret.synonyms)
                    /\ \E k \in 1..Len(ret.meanings) :
                           Substring(WrappedText(ts[j]), ret.meanings[k])

\* C3, amended: for every token <X> after the first word token (which is the
\* anchor and is not recorded as a synonym), X is in synonyms, and X, up to
\* the surrounding whitespace that the final trim removes, is in the meaning
\* string of the group in progress when the token is read.
C3_SynonymInMeaning ==
    AnchorDone =>
        LET R == Roles(Tokenize(line))
        IN  \A j \in 1..NumToks(R) :
                j > R.aidx /\ IsWrapped(R.toks[j]) =>
                    /\ InSeq(WrappedText(R.toks[j]), ret.synonyms)
                    /\ MeaningIdx(R, j) \in 1..Len(ret.meanings)
                    /\ Substring(Strip(WrappedText(R.toks[j])),
                                 ret.meanings[MeaningIdx(R, j)])

\* a line with a token <X>, X not empty, in its second meaning group has
\* been parsed
C3_Witness ==
    /\ AnchorDone
    /\ LET R == Roles(Tokenize(line))
       IN  \E j \in 1..NumToks(R) :
               /\ j > R.aidx
               /\ IsWrapped(R.toks[j])
               /\ Strip(WrappedText(R.toks[j])) # <<>>
               /\ MeaningIdx(R, j) = 2

\* C10 as stated: no meaning string after the first contains the anchor.
C10_AsStated ==
    AnchorDone /\ ret.anchor # None /\ ret.anchor # <<>> =>
        \A k \in 2..Len(ret.meanings) : ~Substring(ret.anchor, ret.meanings[k])

\* C10, amended: the anchor is injected exactly once, at the head of the
\* first meaning string; every meaning string is the words of its group joined
\* by single spaces and trimmed, where the words of the first group are the
\* anchor followed by its synonyms and the words of a later group are only the
\* synonyms collected since the previous semicolon (so a later meaning string
\* holds the anchor's text only when that text recurs among those synonyms).
C10_AnchorInjectedOnce ==
    AnchorDone =>
        LET R == Roles(Tokenize(line))
            gs == GroupSeq(R)
        IN  /\ ret.meanings =
                  [k \in 1..Len(gs) |-> Strip(Join(WordsOfGroup(R, gs[k])))]
            /\ ret.synonyms =
                  Flatten([k \in 1..(R.nsemi + 1) |-> SynsOfGroup(R, k - 1)])
            /\ \A k \in 2..Len(gs) :
                  WordsOfGroup(R, gs[k]) = SynsOfGroup(R, gs[k])
            /\ (R.aidx # 0 =>
                  /\ ret.anchor = R.word[R.aidx]
                  /\ gs[1] = R.grp[R.aidx]
                  /\ WordsOfGroup(R, gs[1])[1] = ret.anchor)

\* a line with two meaning groups, the second one a synonym that repeats the
\* anchor, has been parsed
C10_Witness ==
    /\ AnchorDone
    /\ Len(ret.meanings) = 2
    /\ ret.anchor # <<>>
    /\ ret.synonyms = <<ret.anchor>>
    /\ ret.meanings[2] = ret.anchor

====
